---- MODULE Spec2Model ----
(***************************************************************************)
(* Model of src/main.py (class VoiceAssistant): the audio session          *)
(* (play_sound, play_intro_song, listen_during_playback, fade_out_volume,  *)
(* start/stop_audio_streaming, the exit and KeyboardInterrupt teardowns)   *)
(* and the response chain (generate_cloud_ai_response and its helpers).    *)
(*                                                                         *)
(* The foreground flow is the main loop of run(); every play_intro_song    *)
(* call starts one more daemon thread running listen_during_playback. The  *)
(* threads are anonymous (nothing keeps the Thread object), so the live    *)
(* ones are a bag of thread states.                                       *)
(* pygame.mixer.music is one music channel: what it plays, and its volume. *)
(* Volumes are exact rationals, kept as integers in units of 1/VolScale:   *)
(* the rounding of the program's binary floating point is not modelled.    *)
(*                                                                         *)
(* Spec is the session; ChainSpec the response chain for every behaviour   *)
(* of the services; RampSpec fade_out_volume running alone from every      *)
(* initial level; CallbackSpec audio_callback for every buffer.            *)
(***************************************************************************)
EXTENDS Integers, Naturals, Sequences, FiniteSets, Bags, TLC

\* ------------------------------------------------------------------ bounds
\* play_intro_song calls that start playback in one run (one listener each)
MaxIntros == 2

\* iterations of the ramp loop of fade_out_volume that run between two steps
\* of the other threads (the loop only sleeps between its iterations)
RampStride == 25

\* faults (exceptions raised by the mixer or the audio device) in one run
MaxFaults == 1

\* longest run of non-blank characters in a provider's text
MaxBody == 6

\* most blanks before, and after, a provider's text
MaxPad == 1

\* longest byte string of edge bytes handed to audio_callback
MaxBytes == 4

\* -------------------------------------------------------- program constants
fade_steps == 50

\* one unit of volume is 1/VolScale: every ramp value of a fade that starts
\* from a value written by an enclosing fade (depth <= MaxIntros) is exact
VolScale == 5 * (fade_steps ^ MaxIntros)

\* pygame.mixer.music.set_volume(0.8)
DefaultVolume == (8 * VolScale) \div 10

\* pygame.mixer.music.set_volume(0.4)
ClipVolume == (4 * VolScale) \div 10

Max(a, b) == IF a >= b THEN a ELSE b

Min(a, b) == IF a <= b THEN a ELSE b

VARIABLES
  pc,                  \* position of the foreground flow (run)
  music,               \* what pygame.mixer.music is playing: "none" = not busy
  volume,              \* pygame.mixer.music volume, in 1/VolScale
  is_playing_intro,    \* self.is_playing_intro
  fade_out_requested,  \* self.fade_out_requested
  is_streaming,        \* self.is_streaming
  audio_stream,        \* self.audio_stream: NoStream (None) or the open
                       \*   stream, a record of the parameters it was opened with
  has_p,               \* hasattr(self, 'p')
  nstarted,            \* playbacks (and listener threads) started so far
  listeners,           \* the live listener threads: a bag of
                       \*   [pc, initial (initial_volume), i (ramp steps done)]
  instances,           \* PyAudio instances created and not yet terminated
  streams,             \* streams opened and not yet closed
  report,              \* the last message the main thread printed
  nfaults,             \* faults raised so far
  natural,             \* the latest playback was reported "finished"
  faded,               \* a fade_out_volume started during the latest playback
  chain_pc,            \* "idle"; "done" once generate_cloud_ai_response returned
  outs,                \* what each service does when it is called
  consulted,           \* the services called, in order
  result,              \* what generate_cloud_ai_response did
  in_data,             \* the buffer handed to audio_callback: a byte sequence
  cb_out,              \* what audio_callback returned: [data, status]
  provider,            \* the provider function that is called
  backends,            \* what each backend of the provider does when asked
  attempted,           \* the backends asked, in order
  prov_out             \* what the provider function returned

sessionVars == <<pc, music, volume, is_playing_intro, fade_out_requested,
                 is_streaming, audio_stream, has_p, instances, streams,
                 report, nstarted, listeners, nfaults, natural, faded>>

chainVars == <<chain_pc, outs, consulted, result>>

callbackVars == <<in_data, cb_out>>

providerVars == <<provider, backends, attempted, prov_out>>

\* the state of the pure functions, which the session leaves alone
pureVars == <<chainVars, callbackVars, providerVars>>

vars == <<sessionVars, chainVars, callbackVars, providerVars>>

mixerVars == <<music, volume>>
streamVars == <<is_streaming, audio_stream, has_p, instances, streams>>
listenerVars == <<nstarted, listeners>>
ghostVars == <<natural, faded>>

\* self.audio_stream = None
NoStream == [format |-> "None", channels |-> 0, rate |-> 0,
             frames_per_buffer |-> 0]

\* a call may raise at the statement `fault` while faults are left to raise
FaultOk(fault) == fault = "none" \/ nfaults < MaxFaults

Raised(fault) == IF fault = "none" THEN nfaults ELSE nfaults + 1

\* pygame.mixer.music.get_busy()
get_busy == music # "none"

\* listener positions from the match of "fade out" to the end of the fade
FadePcs == {"fade_start", "ramp", "fade_end"}

\* a listener thread at position p, outside the ramp
Thread(p) == [pc |-> p, initial |-> 0, i |-> 0]

\* the live threads
Live == BagToSet(listeners)

\* thread r moves on to state q; thread r returns
Becomes(r, q) == (listeners (-) SetToBag({r})) (+) SetToBag({q})

Returns(r) == listeners (-) SetToBag({r})

\* ---------------------------------------------------------------- __init__
\* The mixer volume before the first set_volume is taken to be the session's
\* nominal level, so that nothing below depends on the library's start level.
SessionInit ==
  /\ pc = "listen"
  /\ music = "none"
  /\ volume = DefaultVolume
  /\ is_playing_intro = FALSE
  /\ fade_out_requested = FALSE
  /\ is_streaming = FALSE
  /\ audio_stream = NoStream
  /\ has_p = FALSE
  /\ instances = 0
  /\ streams = 0
  /\ report = "Voice Assistant Starting..."
  /\ nstarted = 0
  /\ listeners = EmptyBag
  /\ nfaults = 0
  /\ natural = FALSE
  /\ faded = FALSE

\* ------------------------------------------------------------ the mixer
\* the music that is playing reaches its end
MusicEnds ==
  /\ pc # "exited"
  /\ music # "none"
  /\ music' = "none"
  /\ UNCHANGED <<pc, volume, is_playing_intro, fade_out_requested, streamVars,
                 report, listenerVars, nfaults, ghostVars, pureVars>>

\* ------------------------------------------------------------- play_sound
\* play_sound with the test of os.path.exists left out: loading a file that
\* is not there raises, and the except clause reports the error
PlaySound_NoExistsCheck(found, fault) ==
  /\ pc = "listen"
  /\ FaultOk(fault)
  /\ ~found => fault = "none"
  /\ CASE ~found \/ fault = "load" ->
            /\ report' = "Error playing sound"
            /\ UNCHANGED <<pc, mixerVars>>
       [] found /\ fault = "play" ->
            /\ volume' = ClipVolume
            /\ music' = "none"
            /\ report' = "Error playing sound"
            /\ pc' = pc
       [] OTHER ->
            /\ volume' = ClipVolume
            /\ music' = "clip"
            /\ report' = "Playing"
            /\ pc' = "clip_wait"
  /\ nfaults' = Raised(fault)
  /\ UNCHANGED <<is_playing_intro, fade_out_requested, streamVars,
                 listenerVars, ghostVars, pureVars>>

\* found: os.path.exists(filename); fault: where the try block raises
\*   "none" no exception, "load" in music.load, "play" in music.play
PlaySound(found, fault) ==
  /\ pc = "listen"
  /\ FaultOk(fault)
  /\ ~found => fault = "none"
  /\ IF ~found
       THEN /\ report' = "Sound file not found"
            /\ UNCHANGED <<pc, mixerVars>>
       ELSE CASE fault = "load" -> /\ report' = "Error playing sound"
                                   /\ UNCHANGED <<pc, mixerVars>>
              [] fault = "play" -> /\ volume' = ClipVolume
                                   /\ music' = "none"
                                   /\ report' = "Error playing sound"
                                   /\ pc' = pc
              [] OTHER          -> /\ volume' = ClipVolume
                                   /\ music' = "clip"
                                   /\ report' = "Playing"
                                   /\ pc' = "clip_wait"
  /\ nfaults' = Raised(fault)
  /\ UNCHANGED <<is_playing_intro, fade_out_requested, streamVars,
                 listenerVars, ghostVars, pureVars>>

\* while get_busy(): wait(100); then set_volume(0.8)
PlaySoundFinish ==
  /\ pc = "clip_wait"
  /\ ~get_busy
  /\ volume' = DefaultVolume
  /\ report' = "Finished playing sound."
  /\ pc' = "listen"
  /\ UNCHANGED <<music, is_playing_intro, fade_out_requested, streamVars,
                 listenerVars, nfaults, ghostVars, pureVars>>

\* -------------------------------------------------------- play_intro_song
\* found: check_intro_file returns a file; fault: where the try block raises
\*   "none" no exception, "load" in music.load, "play" in music.play
\* The function has no guard on is_playing_intro. A call that starts playback
\* starts one more listener thread.
PlayIntroSong(found, fault) ==
  /\ pc = "listen"
  /\ FaultOk(fault)
  /\ ~found => fault = "none"
  /\ IF ~found
       THEN /\ report' = "Cannot play intro song."
            /\ UNCHANGED <<pc, mixerVars, is_playing_intro, fade_out_requested,
                           listenerVars, ghostVars>>
       ELSE CASE fault = "load" ->
                   /\ is_playing_intro' = FALSE
                   /\ report' = "Error playing intro song"
                   /\ UNCHANGED <<pc, mixerVars, fade_out_requested,
                                  listenerVars, ghostVars>>
              [] fault = "play" ->
                   /\ music' = "none"
                   /\ volume' = DefaultVolume
                   /\ is_playing_intro' = FALSE
                   /\ report' = "Error playing intro song"
                   /\ UNCHANGED <<pc, fade_out_requested, listenerVars,
                                  ghostVars>>
              [] OTHER ->
                   /\ nstarted < MaxIntros
                   /\ music' = "intro"
                   /\ volume' = DefaultVolume
                   /\ is_playing_intro' = TRUE
                   /\ fade_out_requested' = FALSE
                   /\ nstarted' = nstarted + 1
                   /\ listeners' = listeners (+) SetToBag({Thread("loop")})
                   /\ natural' = FALSE
                   /\ faded' = FALSE
                   /\ report' = "Say 'fade out' to gradually stop the music."
                   /\ pc' = "intro_wait"
  /\ nfaults' = Raised(fault)
  /\ UNCHANGED <<streamVars, pureVars>>

\* the wait loop of play_intro_song ends (its condition is false at a poll)
IntroWaitExit ==
  /\ pc = "intro_wait"
  /\ ~(is_playing_intro /\ get_busy /\ ~fade_out_requested)
  /\ pc' = "intro_after"
  /\ UNCHANGED <<mixerVars, is_playing_intro, fade_out_requested, streamVars,
                 report, listenerVars, nfaults, ghostVars, pureVars>>

\* the clean-up of play_intro_song without its test of fade_out_requested
IntroAfter_NoFlagTest ==
  /\ pc = "intro_after"
  /\ is_playing_intro' = FALSE
  /\ volume' = DefaultVolume
  /\ natural' = TRUE
  /\ report' = "Intro song finished. Volume reset to normal."
  /\ pc' = "listen"
  /\ UNCHANGED <<music, fade_out_requested, streamVars, listenerVars, nfaults,
                 faded, pureVars>>

\* "Clean up if music finished naturally": if not self.fade_out_requested
IntroAfter ==
  /\ pc = "intro_after"
  /\ IF ~fade_out_requested
       THEN /\ is_playing_intro' = FALSE
            /\ volume' = DefaultVolume
            /\ natural' = TRUE
            /\ report' = "Intro song finished. Volume reset to normal."
       ELSE UNCHANGED <<is_playing_intro, volume, natural, report>>
  /\ pc' = "listen"
  /\ UNCHANGED <<music, fade_out_requested, streamVars, listenerVars, nfaults,
                 faded, pureVars>>

\* ------------------------------------------------ listen_during_playback
\* while self.is_playing_intro and pygame.mixer.music.get_busy():
ListenerLoop ==
  \E r \in Live :
    /\ pc # "exited"
    /\ r.pc = "loop"
    /\ listeners' = IF is_playing_intro /\ get_busy
                      THEN Becomes(r, Thread("capture"))
                      ELSE Returns(r)
    /\ UNCHANGED <<pc, mixerVars, is_playing_intro, fade_out_requested,
                   streamVars, report, nstarted, nfaults, ghostVars, pureVars>>

\* listen_for_command(timeout=1) returns; heard: "fade out" in command
ListenerCapture(heard) ==
  \E r \in Live :
    /\ pc # "exited"
    /\ r.pc = "capture"
    /\ IF heard
         THEN /\ fade_out_requested' = TRUE
              /\ listeners' = Becomes(r, Thread("fade_start"))
         ELSE /\ listeners' = Becomes(r, Thread("loop"))
              /\ UNCHANGED fade_out_requested
    /\ UNCHANGED <<pc, mixerVars, is_playing_intro, streamVars, report,
                   nstarted, nfaults, ghostVars, pureVars>>

\* --------------------------------------------------------- fade_out_volume
\* volume_step = initial_volume / fade_steps
VolumeStep(initial) == initial \div fade_steps

\* current_volume of iteration i (0-based) of the ramp, with (i + 1) taken
\* as i: the values start at initial_volume and stop one step short of 0
RampVolume_FromZero(initial, i) == Max(0, initial - (VolumeStep(initial) * i))

\* current_volume of iteration i (0-based) of the ramp
RampVolume(initial, i) == Max(0, initial - (VolumeStep(initial) * (i + 1)))

\* initial_volume = pygame.mixer.music.get_volume()
FadeStart ==
  \E r \in Live :
    /\ pc # "exited"
    /\ r.pc = "fade_start"
    /\ listeners' = Becomes(r, [pc |-> "ramp", initial |-> volume, i |-> 0])
    /\ faded' = TRUE
    /\ UNCHANGED <<pc, mixerVars, is_playing_intro, fade_out_requested,
                   streamVars, report, nstarted, nfaults, natural, pureVars>>

\* thread r after the loop, having run n of its iterations
AfterRamp(n) == [pc |-> "fade_end", initial |-> 0, i |-> n]

\* for i in range(fade_steps): thread r runs the next iterations of the loop,
\* up to stride of them; the last value they set is the volume afterwards
RampOf(r, stride) ==
  /\ pc # "exited"
  /\ r.pc = "ramp"
  /\ IF ~is_playing_intro
       THEN /\ listeners' = Becomes(r, AfterRamp(r.i))
            /\ UNCHANGED volume
       ELSE LET n == Min(stride, fade_steps - r.i) IN
            /\ volume' = RampVolume(r.initial, r.i + n - 1)
            /\ listeners' = Becomes(r,
                 IF r.i + n = fade_steps
                   THEN AfterRamp(fade_steps)
                   ELSE [r EXCEPT !.i = r.i + n])
  /\ UNCHANGED <<pc, music, is_playing_intro, fade_out_requested, streamVars,
                 report, nstarted, nfaults, ghostVars, pureVars>>

\* the ramp as the session sees it: RampStride iterations between two steps
\* of the other threads
RampStep == \E r \in Live : RampOf(r, RampStride)

\* one iteration of the loop
RampIteration == \E r \in Live : RampOf(r, 1)

\* the end of fade_out_volume without its set_volume(0.8)
FadeEndOf_NoVolumeReset(r) ==
  /\ pc # "exited"
  /\ r.pc = "fade_end"
  /\ music' = "none"
  /\ is_playing_intro' = FALSE
  /\ listeners' = Returns(r)
  /\ UNCHANGED <<pc, volume, fade_out_requested, streamVars, report, nstarted,
                 nfaults, ghostVars, pureVars>>

\* after the loop: music.stop(); is_playing_intro = False; set_volume(0.8);
\* fade_out_volume returns and the listener breaks out of its loop
FadeEndOf(r) ==
  /\ pc # "exited"
  /\ r.pc = "fade_end"
  /\ music' = "none"
  /\ is_playing_intro' = FALSE
  /\ volume' = DefaultVolume
  /\ listeners' = Returns(r)
  /\ UNCHANGED <<pc, fade_out_requested, streamVars, report, nstarted, nfaults,
                 ghostVars, pureVars>>

FadeEnd == \E r \in Live : FadeEndOf(r)

\* ---------------------------------------------------- start_audio_streaming
\* the parameters with the test of ultra_low_latency left out: the balanced
\* preset whatever was asked
StreamParameters_OnePreset(ultra) ==
  [format |-> "paInt16", channels |-> 1, rate |-> 22050,
   frames_per_buffer |-> 256]

\* the arguments of self.p.open(...): chunk and rate by latency mode,
\* format = pyaudio.paInt16, channels = 1
StreamParameters(ultra) ==
  [format |-> "paInt16", channels |-> 1,
   rate |-> IF ultra THEN 16000 ELSE 22050,
   frames_per_buffer |-> IF ultra THEN 128 ELSE 256]

\* start_audio_streaming with self.is_streaming = True moved ahead of the
\* device calls and no reset of the flag in the except clause
StartStreamingEffect_FlagFirst(ultra, fault) ==
  IF is_streaming
    THEN /\ report' = "Audio streaming is already active"
         /\ UNCHANGED streamVars
    ELSE /\ is_streaming' = TRUE
         /\ CASE fault = "init"  ->
                   /\ report' = "Error starting audio streaming"
                   /\ UNCHANGED <<audio_stream, has_p, instances, streams>>
              [] fault = "open"  ->
                   /\ has_p' = TRUE
                   /\ instances' = instances + 1
                   /\ report' = "Error starting audio streaming"
                   /\ UNCHANGED <<audio_stream, streams>>
              [] fault = "start" ->
                   /\ has_p' = TRUE
                   /\ instances' = instances + 1
                   /\ audio_stream' = StreamParameters(ultra)
                   /\ streams' = streams + 1
                   /\ report' = "Error starting audio streaming"
              [] OTHER           ->
                   /\ has_p' = TRUE
                   /\ instances' = instances + 1
                   /\ audio_stream' = StreamParameters(ultra)
                   /\ streams' = streams + 1
                   /\ report' = "Audio streaming activated!"

\* the effect of one call on the streaming fields, and what it prints
\* fault: where the try block raises: "none", "init" (pyaudio.PyAudio()),
\*   "open" (self.p.open), "start" (start_stream)
\* self.p = ... and self.audio_stream = ... drop the reference to whatever
\* the attribute held: an instance or stream they held stays unreleased
StartStreamingEffect(ultra, fault) ==
  IF is_streaming
    THEN /\ report' = "Audio streaming is already active"
         /\ UNCHANGED streamVars
    ELSE CASE fault = "init"  ->
                /\ is_streaming' = FALSE
                /\ report' = "Error starting audio streaming"
                /\ UNCHANGED <<audio_stream, has_p, instances, streams>>
           [] fault = "open"  ->
                /\ has_p' = TRUE
                /\ instances' = instances + 1
                /\ is_streaming' = FALSE
                /\ report' = "Error starting audio streaming"
                /\ UNCHANGED <<audio_stream, streams>>
           [] fault = "start" ->
                /\ has_p' = TRUE
                /\ instances' = instances + 1
                /\ audio_stream' = StreamParameters(ultra)
                /\ streams' = streams + 1
                /\ is_streaming' = FALSE
                /\ report' = "Error starting audio streaming"
           [] OTHER           ->
                /\ has_p' = TRUE
                /\ instances' = instances + 1
                /\ audio_stream' = StreamParameters(ultra)
                /\ streams' = streams + 1
                /\ is_streaming' = TRUE
                /\ report' = "Audio streaming activated!"

StartAudioStreaming(ultra, fault) ==
  /\ pc = "listen"
  /\ FaultOk(fault)
  /\ is_streaming => fault = "none"
  /\ StartStreamingEffect(ultra, fault)
  /\ nfaults' = Raised(fault)
  /\ UNCHANGED <<pc, mixerVars, is_playing_intro, fade_out_requested,
                 listenerVars, ghostVars, pureVars>>

\* ----------------------------------------------------- stop_audio_streaming
\* fault: where the try block raises: "none", "stop" (stop_stream), "close",
\*   "terminate"; the statement has to be reached for it to raise
StopFaultReached(fault) ==
  \/ fault = "none"
  \/ /\ is_streaming
     /\ \/ fault \in {"stop", "close"} /\ audio_stream # NoStream
        \/ fault = "terminate" /\ has_p

\* the try block of stop_audio_streaming: a device call that raises has not
\* released its handle
StopTry(fault) ==
  IF audio_stream # NoStream /\ fault \in {"stop", "close"}
    THEN UNCHANGED streamVars
    ELSE /\ audio_stream' = NoStream
         /\ streams' = IF audio_stream # NoStream THEN streams - 1 ELSE streams
         /\ IF has_p /\ fault = "terminate"
              THEN UNCHANGED <<has_p, instances, is_streaming>>
              ELSE /\ has_p' = FALSE
                   /\ instances' = IF has_p THEN instances - 1 ELSE instances
                   /\ is_streaming' = FALSE

\* stop_audio_streaming without its test of self.is_streaming
StopStreamingEffect_NoGuard(fault) == StopTry(fault)

\* the effect of one call on the streaming fields
StopStreamingEffect(fault) ==
  IF ~is_streaming THEN UNCHANGED streamVars ELSE StopTry(fault)

\* the last message of one call
StopReport(fault) ==
  IF ~is_streaming
    THEN "Audio streaming is not active"
    ELSE IF fault = "none" THEN "Audio streaming stopped"
                           ELSE "Error stopping audio streaming"

StopAudioStreaming(fault) ==
  /\ pc = "listen"
  /\ FaultOk(fault)
  /\ StopFaultReached(fault)
  /\ StopStreamingEffect(fault)
  /\ report' = StopReport(fault)
  /\ nfaults' = Raised(fault)
  /\ UNCHANGED <<pc, mixerVars, is_playing_intro, fade_out_requested,
                 listenerVars, ghostVars, pureVars>>

\* --------------------------------------------- process_command: exit words
\* if self.is_playing_intro: stop, set_volume(0.8), flag off;
\* if self.is_streaming: stop_audio_streaming(); return False
\* the teardown of the exit branch: its writes to the session
ExitTeardown(fault) ==
  /\ IF is_playing_intro
       THEN /\ music' = "none"
            /\ volume' = DefaultVolume
            /\ is_playing_intro' = FALSE
       ELSE UNCHANGED <<music, volume, is_playing_intro>>
  /\ StopStreamingEffect(fault)

\* the calls the exit branch makes to stop what is running, in its order
ExitStops ==
  (IF is_playing_intro THEN <<"music.stop", "music.set_volume(0.8)">>
                       ELSE <<>>)
    \o (IF is_streaming THEN <<"stop_audio_streaming">> ELSE <<>>)

ExitCommand(fault) ==
  /\ pc = "listen"
  /\ FaultOk(fault)
  /\ StopFaultReached(fault)
  /\ ExitTeardown(fault)
  /\ report' = "Goodbye!"
  /\ pc' = "exited"
  /\ nfaults' = Raised(fault)
  /\ UNCHANGED <<fade_out_requested, listenerVars, ghostVars, pureVars>>

\* ------------------------------- process_command: a command it does not know
\* "fade out" spoken to the main loop matches no branch: the list of commands
\* is printed
FadeOutCommand ==
  /\ pc = "listen"
  /\ report' = "Command not recognized"
  /\ UNCHANGED <<pc, mixerVars, is_playing_intro, fade_out_requested,
                 streamVars, listenerVars, nfaults, ghostVars, pureVars>>

\* ------------------------------------------- run: except KeyboardInterrupt
\* raised anywhere in the main thread inside the loop: the blocking calls
\* catch Exception only, so it reaches the handler of run from any position
\* the handler of KeyboardInterrupt without its set_volume(0.8)
InterruptTeardown_NoVolumeReset(fault) ==
  /\ IF is_playing_intro
       THEN /\ music' = "none"
            /\ is_playing_intro' = FALSE
            /\ UNCHANGED volume
       ELSE UNCHANGED <<music, volume, is_playing_intro>>
  /\ StopStreamingEffect(fault)

\* the teardown of the handler of KeyboardInterrupt: its writes to the
\* session
InterruptTeardown(fault) ==
  /\ IF is_playing_intro
       THEN /\ music' = "none"
            /\ volume' = DefaultVolume
            /\ is_playing_intro' = FALSE
       ELSE UNCHANGED <<music, volume, is_playing_intro>>
  /\ StopStreamingEffect(fault)

\* the calls the handler makes to stop what is running, in its order
InterruptStops ==
  (IF is_playing_intro THEN <<"music.stop", "music.set_volume(0.8)">>
                       ELSE <<>>)
    \o (IF is_streaming THEN <<"stop_audio_streaming">> ELSE <<>>)

KeyboardInterrupt(fault) ==
  /\ pc # "exited"
  /\ FaultOk(fault)
  /\ StopFaultReached(fault)
  /\ InterruptTeardown(fault)
  /\ report' = IF is_streaming THEN StopReport(fault)
                               ELSE "Stopping assistant..."
  /\ pc' = "exited"
  /\ nfaults' = Raised(fault)
  /\ UNCHANGED <<fade_out_requested, listenerVars, ghostVars, pureVars>>

\* ================================================= the response chain
\* A text is a sequence of characters. What a service does when called:
\*   kind "raise" (it raises), "none" (it returns None), "text" (returns text)
RaiseOut == [kind |-> "raise", text |-> <<>>]
NoneOut == [kind |-> "none", text |-> <<>>]
TextOut(t) == [kind |-> "text", text |-> t]

\* str.strip(): blanks removed at both ends
RECURSIVE LStrip(_)
LStrip(t) == IF t # <<>> /\ Head(t) = " " THEN LStrip(Tail(t)) ELSE t

RECURSIVE RStrip(_)
RStrip(t) ==
  IF t # <<>> /\ t[Len(t)] = " " THEN RStrip(SubSeq(t, 1, Len(t) - 1)) ELSE t

Strip(t) == RStrip(LStrip(t))

\* the truth value of a returned object: None and "" are false
Truthy(o) == o.kind = "text" /\ o.text # <<>>

\* the methods class VoiceAssistant defines, of those try_free_ai_services
\* names (there is no __getattr__)
ClassMethods == {"try_improved_huggingface_api",
                 "try_improved_openai_compatible_api"}

\* services = [self.try_improved_huggingface_api, ...]
services == <<"try_improved_huggingface_api",
              "try_improved_openai_compatible_api",
              "try_ollama_local_api">>

\* len(response.strip()) > 5 in try_free_ai_services
MinServiceLen == 5

\* len(response.strip()) > 3 in generate_cloud_ai_response
MinResponseLen == 3

\* for i, service in enumerate(services): from service i on; o is what each
\* service does, called the services called so far
RECURSIVE ServiceLoop(_, _, _)
ServiceLoop(o, i, called) ==
  IF i > Len(services)
    THEN [raised |-> FALSE, value |-> NoneOut, consulted |-> called]
    ELSE IF Truthy(o[i]) /\ Len(Strip(o[i].text)) > MinServiceLen
      THEN [raised |-> FALSE, value |-> TextOut(Strip(o[i].text)),
            consulted |-> Append(called, i)]
      ELSE ServiceLoop(o, i + 1, Append(called, i))

\* try_free_ai_services with the list made of the two methods the class
\* defines and the test of the length left out: the first response that is
\* not empty once trimmed is returned
TryFreeAiServices_AnyText(o) ==
  LET defined == {k \in 1..Len(services) : services[k] \in ClassMethods}
      answers == {k \in defined : Truthy(o[k]) /\ Strip(o[k].text) # <<>>}
  IN IF answers = {}
       THEN [raised |-> FALSE, value |-> NoneOut,
             consulted |-> [j \in 1..Cardinality(defined) |-> j]]
       ELSE LET k == CHOOSE a \in answers : \A b \in answers : a <= b
            IN [raised |-> FALSE, value |-> TextOut(Strip(o[k].text)),
                consulted |-> [j \in 1..k |-> j]]

\* try_free_ai_services: building the list reads every attribute it names,
\* outside any try; a name the class does not define raises AttributeError
TryFreeAiServices(o) ==
  IF \E k \in 1..Len(services) : services[k] \notin ClassMethods
    THEN [raised |-> TRUE, value |-> NoneOut, consulted |-> <<>>]
    ELSE ServiceLoop(o, 1, <<>>)

fallback_responses == <<
    <<"S", "i", "g", "h", ".", " ", "A", "n", "o", "t", "h", "e", "r", " ",
      "q", "u", "e", "s", "t", "i", "o", "n", " ", "f", "o", "r", " ", "m",
      "y", " ", "p", "l", "a", "n", "e", "t", "-", "s", "i", "z", "e", "d",
      " ", "b", "r", "a", "i", "n", ".">>,
    <<"H", "o", "w", " ", "p", "r", "e", "d", "i", "c", "t", "a", "b", "l",
      "y", " ", "d", "i", "s", "a", "p", "p", "o", "i", "n", "t", "i", "n",
      "g", ".", " ", "W", "h", "a", "t", " ", "d", "i", "d", " ", "y", "o",
      "u", " ", "e", "x", "p", "e", "c", "t", "?">>,
    <<"L", "i", "f", "e", ".", " ", "D", "o", "n", "'", "t", " ", "t", "a",
      "l", "k", " ", "t", "o", " ", "m", "e", " ", "a", "b", "o", "u", "t",
      " ", "l", "i", "f", "e", ".">>,
    <<"H", "e", "r", "e", " ", "I", " ", "a", "m", ",", " ", "b", "r", "a",
      "i", "n", " ", "t", "h", "e", " ", "s", "i", "z", "e", " ", "o", "f",
      " ", "a", " ", "p", "l", "a", "n", "e", "t", ".">>,
    <<"O", "h", " ", "w", "o", "n", "d", "e", "r", "f", "u", "l", ".", " ",
      "A", "n", "o", "t", "h", "e", "r", " ", "h", "u", "m", "a", "n", " ",
      "p", "r", "o", "b", "l", "e", "m", " ", "t", "o", " ", "s", "o", "l",
      "v", "e", ".">>,
    <<"M", "a", "r", "v", "e", "l", "o", "u", "s", ".", " ", "W", "h", "a",
      "t", " ", "c", "a", "t", "a", "s", "t", "r", "o", "p", "h", "i", "c",
      "a", "l", "l", "y", " ", "i", "m", "p", "o", "r", "t", "a", "n", "t",
      " ", "m", "a", "t", "t", "e", "r", " ", "n", "o", "w", "?">>,
    <<"B", "r", "a", "i", "n", " ", "t", "h", "e", " ", "s", "i", "z", "e",
      " ", "o", "f", " ", "a", " ", "p", "l", "a", "n", "e", "t", ",", " ",
      "a", "n", "d", " ", "y", "o", "u", " ", "a", "s", "k", " ", "m", "e",
      " ", "t", "h", "i", "s", ".">>,
    <<"H", "o", "w", " ", "d", "e", "l", "i", "g", "h", "t", "f", "u", "l",
      "l", "y", " ", "p", "r", "e", "d", "i", "c", "t", "a", "b", "l", "e",
      ".", " ", "N", "e", "x", "t", " ", "q", "u", "e", "s", "t", "i", "o",
      "n", " ", "p", "l", "e", "a", "s", "e", ".">>,
    <<"A", "n", "o", "t", "h", "e", "r", " ", "d", "a", "y", ",", " ", "a",
      "n", "o", "t", "h", "e", "r", " ", "d", "i", "s", "a", "p", "p", "o",
      "i", "n", "t", "m", "e", "n", "t", ".", " ", "W", "h", "a", "t", " ",
      "n", "o", "w", "?">>,
    <<"O", "h", " ", "j", "o", "y", ".", " ", "M", "y", " ", "c", "i", "r",
      "c", "u", "i", "t", "s", " ", "a", "r", "e", " ", "a", "b", "s", "o",
      "l", "u", "t", "e", "l", "y", " ", "t", "h", "r", "i", "l", "l", "e",
      "d", ".">>
  >>

\* generate_simple_fallback_response: random.choice(fallback_responses),
\* choice being the index the reseeded generator draws
GenerateSimpleFallbackResponse(choice) == fallback_responses[choice]

\* generate_cloud_ai_response without its except clause
GenerateCloudAiResponse_NoExcept(o, choice) ==
  LET r == TryFreeAiServices(o) IN
  IF r.raised
    THEN [raised |-> TRUE, text |-> <<>>, consulted |-> r.consulted]
    ELSE IF Truthy(r.value) /\ Len(Strip(r.value.text)) > MinResponseLen
      THEN [raised |-> FALSE, text |-> Strip(r.value.text),
            consulted |-> r.consulted]
      ELSE [raised |-> FALSE, text |-> GenerateSimpleFallbackResponse(choice),
            consulted |-> r.consulted]

\* generate_cloud_ai_response: returns [raised, text, consulted]
GenerateCloudAiResponse(o, choice) ==
  LET r == TryFreeAiServices(o) IN
  IF r.raised
    THEN [raised |-> FALSE, text |-> GenerateSimpleFallbackResponse(choice),
          consulted |-> r.consulted]
    ELSE IF Truthy(r.value) /\ Len(Strip(r.value.text)) > MinResponseLen
      THEN [raised |-> FALSE, text |-> Strip(r.value.text),
            consulted |-> r.consulted]
      ELSE [raised |-> FALSE, text |-> GenerateSimpleFallbackResponse(choice),
            consulted |-> r.consulted]

\* the texts service k may return: blanks, a body of its own letter, blanks
ServiceLetter == <<"a", "b", "c">>

Blanks(n) == [j \in 1..n |-> " "]

Body(k, n) == [j \in 1..n |-> ServiceLetter[k]]

ServiceTexts(k) ==
  {Blanks(l) \o Body(k, n) \o Blanks(r) :
     l \in 0..MaxPad, n \in 0..MaxBody, r \in 0..MaxPad}

ServiceOuts(k) == {RaiseOut, NoneOut} \cup {TextOut(t) : t \in ServiceTexts(k)}

\* ========================================================= audio_callback
\* in_data is a byte string: a sequence of bytes 0..255. A sample is a signed
\* 16-bit integer, two bytes, low byte first.
Int16Min == -32768

Int16Max == 32767

\* the int16 with bit pattern u (0 <= u < 2^16), and the pattern of x
Signed16(u) == IF u > Int16Max THEN u - 2 * (Int16Max + 1) ELSE u

Unsigned16(x) == x % (2 * (Int16Max + 1))

\* np.frombuffer(in_data, dtype=np.int16), for in_data of even length
FromBuffer(b) ==
  [j \in 1..(Len(b) \div 2) |-> Signed16(b[2 * j - 1] + 256 * b[2 * j])]

\* ndarray.tobytes() of an int16 array
ToBytes(s) ==
  [j \in 1..(2 * Len(s)) |->
     IF j % 2 = 1 THEN Unsigned16(s[(j + 1) \div 2]) % 256
                  ELSE Unsigned16(s[j \div 2]) \div 256]

\* audio_data * 2.5 is a float64, exact for every int16: kept in halves
GainHalves == 5

Amplify(x) == GainHalves * x

\* the amplified value passed on as it is
Clip_None(h) == h

\* np.clip(amplified_data, -32768, 32767), on halves
Clip(h) == Max(2 * Int16Min, Min(2 * Int16Max, h))

\* astype(np.int16) of a float: the fraction is dropped (toward zero) and
\* the integer is stored in 16 bits
AsTypeInt16(h) ==
  LET t == IF h >= 0 THEN h \div 2 ELSE -((-h) \div 2)
  IN Signed16(Unsigned16(t))

\* the except clause returning a buffer of silence of the same length
CallbackFallback_Silence(b) ==
  [raised |-> FALSE, data |-> [j \in 1..Len(b) |-> 0], status |-> "paContinue"]

\* except Exception: return (in_data, pyaudio.paContinue)
CallbackFallback(b) == [raised |-> FALSE, data |-> b, status |-> "paContinue"]

\* audio_callback(in_data, ...): np.frombuffer raises ValueError when the
\* buffer is not a whole number of samples
AudioCallback(b) ==
  IF Len(b) % 2 # 0
    THEN CallbackFallback(b)
    ELSE LET audio_data == FromBuffer(b)
             output == [j \in 1..Len(audio_data) |->
                          AsTypeInt16(Clip(Amplify(audio_data[j])))]
         IN [raised |-> FALSE, data |-> ToBytes(output),
             status |-> "paContinue"]

\* the callback has not been called
NoCall == [raised |-> FALSE, data |-> <<>>, status |-> "none"]

CallbackIdle ==
  /\ in_data = <<>>
  /\ cb_out = NoCall

\* bytes that make the samples next to 0 and next to the clipping thresholds:
\* 0x00..0x03, 0x33, 0x34, 0x7F, 0x80, 0xCC, 0xCD, 0xFD, 0xFF
EdgeBytes == {0, 1, 2, 3, 51, 52, 127, 128, 204, 205, 253, 255}

\* the buffers the device hands over: every single sample, and every byte
\* string of edge bytes up to MaxBytes long (odd lengths included)
Buffers ==
  {<<lo, hi>> : lo \in 0..255, hi \in 0..255}
    \cup UNION {[1..n -> EdgeBytes] : n \in 0..MaxBytes}

\* =================================================== the provider functions
\* try_improved_huggingface_api and try_improved_openai_compatible_api post
\* the prompt to their backends in turn. What a backend does when asked:
\*   "timeout"    requests.post raises Timeout
\*   "exception"  requests.post raises another exception
\*   "status"     a response whose status_code is not 200
\*   "malformed"  status 200, and response.json() or the indexing of the body
\*                raises
\*   "empty"      status 200 and a body with no text in it
\*   "short"      status 200 and text of 5 characters or fewer once cleaned
\*   "text"       status 200 and text longer than that
BackendKinds ==
  {"timeout", "exception", "status", "malformed", "empty", "short", "text"}

\* the outcomes that raise inside the try block
BackendRaises(kind) == kind \in {"timeout", "exception", "malformed"}

\* models = [...] of try_improved_huggingface_api
models == <<"microsoft/DialoGPT-large", "microsoft/DialoGPT-medium",
            "facebook/blenderbot-400M-distill">>

\* api_configs = [...] of try_improved_openai_compatible_api, by url
api_configs == <<"https://api.deepinfra.com/v1/openai/chat/completions",
                 "https://api.together.xyz/v1/chat/completions">>

\* try: for ... in <backends>: ...; except Exception: print; return None
\* from backend i on; b is what each backend does, tried the backends asked
\* so far. The value is "text" with the backend it came from, or "None".
RECURSIVE BackendLoop(_, _, _)
BackendLoop(b, i, tried) ==
  IF i > Len(b)
    THEN [value |-> "None", backend |-> 0, attempted |-> tried]
    ELSE IF BackendRaises(b[i])
      THEN [value |-> "None", backend |-> 0, attempted |-> Append(tried, i)]
      ELSE IF b[i] = "text"
        THEN [value |-> "text", backend |-> i, attempted |-> Append(tried, i)]
        ELSE BackendLoop(b, i + 1, Append(tried, i))

TryImprovedHuggingfaceApi(b) == BackendLoop(b, 1, <<>>)

TryImprovedOpenaiCompatibleApi(b) == BackendLoop(b, 1, <<>>)

\* the backends of a provider function
BackendsOf(p) ==
  IF p = "try_improved_huggingface_api" THEN models ELSE api_configs

\* no provider function has been called
NotCalled == [value |-> "NotCalled", backend |-> 0]

ProviderIdle ==
  /\ provider = "none"
  /\ backends = <<>>
  /\ attempted = <<>>
  /\ prov_out = NotCalled

\* ========================================================= initial states
ChainIdle ==
  /\ chain_pc = "idle"
  /\ consulted = <<>>
  /\ result = [raised |-> FALSE, text |-> <<>>]

\* the session with no question asked and no buffer processed
Init ==
  /\ SessionInit
  /\ ChainIdle
  /\ outs = [k \in 1..Len(services) |-> NoneOut]
  /\ CallbackIdle
  /\ ProviderIdle

\* a question is asked, the services behaving in any of the ways above
ChainInit ==
  /\ SessionInit
  /\ ChainIdle
  /\ outs \in {<<o1, o2, o3>> : o1 \in ServiceOuts(1), o2 \in ServiceOuts(2),
                                o3 \in ServiceOuts(3)}
  /\ CallbackIdle
  /\ ProviderIdle

\* PortAudio calls the callback with one buffer
CallbackInit ==
  /\ SessionInit
  /\ ChainIdle
  /\ outs = [k \in 1..Len(services) |-> NoneOut]
  /\ in_data \in Buffers
  /\ cb_out = NoCall
  /\ ProviderIdle

\* the initial volumes of a fade: the levels in (0, 1] whose fiftieth is a
\* whole number of units
RampInputs == {v \in 1..VolScale : v % fade_steps = 0}

\* a listener has matched "fade out" while the intro plays at some volume,
\* and the foreground flow is back in the main loop
RampInit ==
  /\ pc = "listen"
  /\ music = "intro"
  /\ volume \in RampInputs
  /\ is_playing_intro = TRUE
  /\ fade_out_requested = TRUE
  /\ is_streaming = FALSE
  /\ audio_stream = NoStream
  /\ has_p = FALSE
  /\ instances = 0
  /\ streams = 0
  /\ report = "Say 'fade out' to gradually stop the music."
  /\ nstarted = 1
  /\ listeners = SetToBag({Thread("fade_start")})
  /\ nfaults = 0
  /\ natural = FALSE
  /\ faded = FALSE
  /\ ChainIdle
  /\ outs = [k \in 1..Len(services) |-> NoneOut]
  /\ CallbackIdle
  /\ ProviderIdle

\* one of the two provider functions is called, its backends behaving in any
\* of the ways above
ProviderInit ==
  /\ SessionInit
  /\ ChainIdle
  /\ outs = [k \in 1..Len(services) |-> NoneOut]
  /\ CallbackIdle
  /\ provider \in ClassMethods
  /\ backends \in [1..Len(BackendsOf(provider)) -> BackendKinds]
  /\ attempted = <<>>
  /\ prov_out = NotCalled

\* play_intelligent_marvin_sequence calls generate_cloud_ai_response once
AskQuestion(choice) ==
  /\ chain_pc = "idle"
  /\ LET g == GenerateCloudAiResponse(outs, choice) IN
       /\ result' = [raised |-> g.raised, text |-> g.text]
       /\ consulted' = g.consulted
  /\ chain_pc' = "done"
  /\ UNCHANGED <<outs, sessionVars, callbackVars, providerVars>>

\* PortAudio calls audio_callback with the buffer
AudioCallbackCall ==
  /\ cb_out = NoCall
  /\ cb_out' = AudioCallback(in_data)
  /\ UNCHANGED <<in_data, sessionVars, chainVars, providerVars>>

\* response = service(prompt), for one of the two provider functions
CallProvider ==
  /\ provider # "none"
  /\ prov_out = NotCalled
  /\ LET r == IF provider = "try_improved_huggingface_api"
                THEN TryImprovedHuggingfaceApi(backends)
                ELSE TryImprovedOpenaiCompatibleApi(backends)
     IN /\ prov_out' = [value |-> r.value, backend |-> r.backend]
        /\ attempted' = r.attempted
  /\ UNCHANGED <<provider, backends, sessionVars, chainVars, callbackVars>>

\* ---------------------------------------------------------- specifications
PlayFaults == {"none", "load", "play"}
StartFaults == {"none", "init", "open", "start"}
StopFaults == {"none", "stop", "close", "terminate"}

Next ==
  \/ MusicEnds
  \/ \E found \in BOOLEAN, fault \in PlayFaults : PlaySound(found, fault)
  \/ PlaySoundFinish
  \/ \E found \in BOOLEAN, fault \in PlayFaults : PlayIntroSong(found, fault)
  \/ IntroWaitExit
  \/ IntroAfter
  \/ ListenerLoop
  \/ \E heard \in BOOLEAN : ListenerCapture(heard)
  \/ FadeStart
  \/ RampStep
  \/ FadeEnd
  \/ \E ultra \in BOOLEAN, fault \in StartFaults :
       StartAudioStreaming(ultra, fault)
  \/ \E fault \in StopFaults : StopAudioStreaming(fault)
  \/ \E fault \in StopFaults : ExitCommand(fault)
  \/ FadeOutCommand
  \/ \E fault \in StopFaults : KeyboardInterrupt(fault)

\* the audio session: the main loop and the listener threads
Spec == Init /\ [][Next]_vars

ChainNext == \E choice \in 1..Len(fallback_responses) : AskQuestion(choice)

\* the response chain, for every behaviour of the services
ChainSpec == ChainInit /\ [][ChainNext]_vars

CallbackNext == AudioCallbackCall

\* audio_callback, for every buffer
CallbackSpec == CallbackInit /\ [][CallbackNext]_vars

RampNext ==
  \/ FadeStart
  \/ RampIteration
  \/ FadeEnd

\* fade_out_volume running alone, iteration by iteration, from every level
RampSpec == RampInit /\ [][RampNext]_vars

ProviderNext == CallProvider

\* a provider function, for every behaviour of its backends
ProviderSpec == ProviderInit /\ [][ProviderNext]_vars

\* the listener threads get processor time, and the wait loop of
\* play_intro_song polls every 100 ms
Fairness ==
  /\ WF_vars(ListenerLoop)
  /\ WF_vars(FadeStart)
  /\ WF_vars(RampStep)
  /\ WF_vars(FadeEnd)
  /\ WF_vars(IntroWaitExit)
  /\ WF_vars(IntroAfter)

\* the commands and threads that act on the mixer, the intro and its
\* listeners: the session with no streaming command given
PlaybackNext ==
  \/ MusicEnds
  \/ \E found \in BOOLEAN, fault \in PlayFaults : PlaySound(found, fault)
  \/ PlaySoundFinish
  \/ \E found \in BOOLEAN, fault \in PlayFaults : PlayIntroSong(found, fault)
  \/ IntroWaitExit
  \/ IntroAfter
  \/ ListenerLoop
  \/ \E heard \in BOOLEAN : ListenerCapture(heard)
  \/ FadeStart
  \/ RampStep
  \/ FadeEnd
  \/ \E fault \in StopFaults : ExitCommand(fault)
  \/ FadeOutCommand
  \/ \E fault \in StopFaults : KeyboardInterrupt(fault)

\* playback under fair scheduling of its threads
FairSpec == Init /\ [][PlaybackNext]_vars /\ Fairness

\* ================================================================ claims

\* C1: at most one of intro playback (is_playing_intro), clip playback
\* (play_sound waiting for its clip) and streaming (is_streaming) is active
\* in any reachable state.
ClipPlaying == pc = "clip_wait"

C1_MutualExclusion ==
  /\ ~(is_playing_intro /\ is_streaming)
  /\ ~(is_playing_intro /\ ClipPlaying)
  /\ ~(is_streaming /\ ClipPlaying)

\* C2: no intro playback gets both terminal transitions: the "finished
\* naturally" report of play_intro_song and a fade-out started during it.
C2_FadeRaceOneTerminal == ~(natural /\ faded)

\* a service's behaviour counts as a success: text longer than 5 once trimmed
Valid(o) == o.kind = "text" /\ Len(Strip(o.text)) > 5

FirstValid(k) == Valid(outs[k]) /\ \A j \in 1..(k - 1) : ~Valid(outs[j])

\* C3: when services before k fail and service k returns valid text,
\* generate_cloud_ai_response returns that text trimmed, and exactly services
\* 1..k were called.
C3_StopsAtFirstSuccess ==
  chain_pc = "done" =>
    \A k \in 1..Len(services) :
      FirstValid(k) => /\ result.text = Strip(outs[k].text)
                       /\ consulted = [j \in 1..k |-> j]

AllFail == \A k \in 1..Len(services) : ~Valid(outs[k])

InCatalog(t) == \E c \in 1..Len(fallback_responses) : t = fallback_responses[c]

\* C4: when every service fails, generate_cloud_ai_response returns without
\* raising a non-empty text that is one of the canned fallback lines.
C4_ExhaustedGivesCatalogLine ==
  (chain_pc = "done" /\ AllFail) =>
    /\ ~result.raised
    /\ result.text # <<>>
    /\ InCatalog(result.text)

\* a question was answered with the first service raising, the second
\* returning text too short to count and the third returning nothing
C4_Witness ==
  /\ chain_pc = "done"
  /\ outs[1] = RaiseOut
  /\ outs[2].kind = "text" /\ outs[2].text # <<>> /\ ~Valid(outs[2])
  /\ outs[3] = NoneOut
  /\ result.text = fallback_responses[1]

Faulty(o) == o.kind \in {"raise", "none"}

\* C5: a fault of a service is that service's failure only: nothing is
\* raised out of generate_cloud_ai_response, and when services 1..k all
\* fault, service k + 1 is called next.
C5_FaultIsolated ==
  chain_pc = "done" =>
    /\ ~result.raised
    /\ \A k \in 1..(Len(services) - 1) :
         (\A j \in 1..k : Faulty(outs[j])) =>
           \E n \in 1..Len(consulted) : consulted[n] = k + 1

\* a step of the foreground flow that dispatches "computer play intro"
PlayIntroRequest ==
  \E found \in BOOLEAN, fault \in PlayFaults : PlayIntroSong(found, fault)

\* C6: a play-intro request made while is_playing_intro is true leaves the
\* music, the volume, the fade-requested flag and the listener threads as
\* they were.
C6_IntroTwiceNoOp ==
  [][(is_playing_intro /\ PlayIntroRequest) =>
       UNCHANGED <<music, volume, fade_out_requested, nstarted,
                   listeners>>]_vars

\* the listeners inside the body of fade_out_volume
Fading == [r \in {x \in Live : x.pc \in {"ramp", "fade_end"}} |-> listeners[r]]

\* C7: fade_out_volume is never running in two threads at once.
C7_NoDoubleFade == BagCardinality(Fading) <= 1

\* C8: while the process runs, a listener that is capturing, or has matched
\* the phrase, or is fading, exists only while is_playing_intro is true.
C8_ListenerWithinIntro ==
  pc # "exited" =>
    \A r \in Live :
      r.pc \in {"capture", "fade_start", "ramp", "fade_end"}
        => is_playing_intro

\* a fade-out has been triggered and has not yet returned the session to Idle
FadeTriggered == \E r \in Live : r.pc \in FadePcs

\* the foreground flow accepts a new mode: a clip or an intro starts playing,
\* or streaming starts
ModeAccepted ==
  \/ pc = "listen" /\ pc' \in {"clip_wait", "intro_wait"}
  \/ ~is_streaming /\ is_streaming'

\* C9: from the trigger of a fade-out until it has run to its end, the
\* foreground flow accepts no new mode.
C9_FadeBeforeNewMode == [][FadeTriggered => ~ModeAccepted]_vars

\* C10: when the main loop of run has ended, no music plays, is_playing_intro
\* and is_streaming are false, no stream is held, and the volume is 0.8.
C10_ShutdownTeardown ==
  pc = "exited" =>
    /\ music = "none"
    /\ ~is_playing_intro
    /\ ~is_streaming
    /\ audio_stream = NoStream
    /\ volume = DefaultVolume

\* a step in which stop_audio_streaming runs while streaming is on: the
\* command "streaming off", the exit command or the interrupt handler
StopWhileStreaming ==
  /\ is_streaming
  /\ \E fault \in StopFaults : \/ StopAudioStreaming(fault)
                               \/ ExitCommand(fault)
                               \/ KeyboardInterrupt(fault)

\* C11: whenever stop_audio_streaming runs while streaming is on, the device
\* raising or not, afterwards is_streaming is false, no stream is held and
\* the PyAudio instance is gone.
C11_StopReachesIdle ==
  [][StopWhileStreaming =>
       (~is_streaming' /\ audio_stream' = NoStream /\ ~has_p')]_vars

\* nothing plays, nothing streams, and the main thread is between commands
\* or has left the loop
Idle ==
  /\ pc \in {"listen", "exited"}
  /\ music = "none"
  /\ ~is_playing_intro
  /\ ~is_streaming

\* C12: every PyAudio instance and every stream that was acquired is released
\* once: never more released than acquired, and none unreleased while the
\* session is Idle.
C12_HandlesReleasedOnce ==
  /\ instances >= 0
  /\ streams >= 0
  /\ Idle => (instances = 0 /\ streams = 0)

\* a start request in which creating the device, opening the stream or
\* starting it fails; any start request
StartFails ==
  \E ultra \in BOOLEAN, fault \in StartFaults \ {"none"} :
    StartAudioStreaming(ultra, fault)

StartRequest ==
  \E ultra \in BOOLEAN, fault \in StartFaults : StartAudioStreaming(ultra, fault)

\* C13: a start request that fails on the device is reported by
\* start_audio_streaming itself, leaves the main loop running and is_streaming
\* false, and the start request after it is not answered "already active".
C13_OpenFailureStaysIdle ==
  [][/\ StartFails =>
          /\ pc' = "listen"
          /\ report' = "Error starting audio streaming"
          /\ ~is_streaming'
     /\ (report = "Error starting audio streaming" /\ StartRequest) =>
          report' # "Audio streaming is already active"]_vars

\* a start request succeeded after one that failed with its PyAudio instance
\* created
C13_Witness ==
  /\ is_streaming
  /\ report = "Audio streaming activated!"
  /\ nfaults = 1
  /\ instances = 2

StopWhileNotStreaming ==
  /\ ~is_streaming
  /\ \E fault \in StopFaults : StopAudioStreaming(fault)

\* C14: stop_audio_streaming called while is_streaming is false only reports
\* "not active": the main loop goes on, and is_streaming, the stream, the
\* instance, the playback flags, the music and the volume stay as they were.
C14_StopWhenIdleNoOp ==
  [][StopWhileNotStreaming =>
       /\ pc' = "listen"
       /\ report' = "Audio streaming is not active"
       /\ UNCHANGED <<streamVars, is_playing_intro, fade_out_requested,
                      mixerVars>>]_vars

\* "streaming off" was answered "not active" with the instance of a failed
\* start still attached
C14_Witness ==
  /\ report = "Audio streaming is not active"
  /\ ~is_streaming
  /\ has_p
  /\ instances = 1

\* a fade-out request takes effect while is_playing_intro is false: "fade
\* out" is spoken to the main loop, or a listener whose ramp broke off at its
\* first test reaches the end of fade_out_volume
FadeEffectOutsideIntro ==
  /\ ~is_playing_intro
  /\ \/ FadeOutCommand
     \/ \E r \in Live : r.i = 0 /\ FadeEndOf(r)

\* C15: a fade-out request that takes effect while is_playing_intro is false
\* leaves the music, the volume and is_playing_intro as they were.
C15_FadeOutsideIntroNoOp ==
  [][FadeEffectOutsideIntro =>
       UNCHANGED <<music, volume, is_playing_intro>>]_vars

\* play_sound is called with a path that does not exist
PlayMissing == \E fault \in PlayFaults : PlaySound(FALSE, fault)

\* C16: play_sound on a path that does not exist reports "not found" and
\* nothing else: the main loop goes on, no playback starts, and the music,
\* the volume, the flags and the streaming fields stay as they were.
C16_MissingClipNoOp ==
  [][PlayMissing =>
       /\ report' = "Sound file not found"
       /\ pc' = pc
       /\ UNCHANGED <<mixerVars, is_playing_intro, fade_out_requested,
                      streamVars, listenerVars>>]_vars

\* a missing clip was reported while streaming was on, and the main loop is
\* listening again
C16_Witness ==
  /\ report = "Sound file not found"
  /\ pc = "listen"
  /\ music = "none"
  /\ is_streaming

Called == cb_out # NoCall

\* its buffer was a whole number of samples
WholeSamples == Len(in_data) % 2 = 0

\* C18: for a buffer of int16 samples audio_callback returns as many samples
\* as it was given, each within [-32768, 32767], and a sample whose product
\* with 2.5 is out of that range comes out as the bound on its side.
C18_CallbackClamps ==
  (Called /\ WholeSamples) =>
    /\ Len(cb_out.data) = Len(in_data)
    /\ \A j \in 1..Len(FromBuffer(in_data)) :
         LET x == FromBuffer(in_data)[j]
             y == FromBuffer(cb_out.data)[j]
         IN /\ Int16Min <= y
            /\ y <= Int16Max
            /\ (Amplify(x) > 2 * Int16Max) => y = Int16Max
            /\ (Amplify(x) < 2 * Int16Min) => y = Int16Min

\* the samples 13108 and -13108 came out as 32767 and -32768
C18_Witness ==
  /\ Called
  /\ in_data = <<52, 51, 204, 204>>
  /\ cb_out.data = <<255, 127, 0, 128>>

\* round(h / 2) as Python rounds: to the nearest integer, a tie to the even
\* one
RoundHalves(h) ==
  LET f == h \div 2
  IN IF h % 2 = 0 \/ f % 2 = 0 THEN f ELSE f + 1

\* C19: every sample x with 2.5 * x within [-32768, 32767] comes out as
\* round(2.5 * x).
C19_CallbackRounds ==
  (Called /\ WholeSamples) =>
    \A j \in 1..Len(FromBuffer(in_data)) :
      LET x == FromBuffer(in_data)[j]
          y == FromBuffer(cb_out.data)[j]
      IN (2 * Int16Min <= Amplify(x) /\ Amplify(x) <= 2 * Int16Max)
           => y = RoundHalves(Amplify(x))

\* C20: audio_callback never raises and always returns the status that keeps
\* the stream going; for a buffer it cannot process it returns that buffer
\* as it was given.
C20_CallbackFaultPassThrough ==
  Called =>
    /\ ~cb_out.raised
    /\ cb_out.status = "paContinue"
    /\ ~WholeSamples => cb_out.data = in_data

\* a buffer of one sample and a half came back as it was
C20_Witness ==
  /\ Called
  /\ in_data = <<1, 2, 3>>
  /\ cb_out.data = <<1, 2, 3>>
  /\ cb_out.status = "paContinue"

\* a start request with the preset `ultra` that gets as far as opening a
\* stream
Opens(ultra) ==
  /\ ~is_streaming
  /\ \E fault \in {"none", "start"} : StartAudioStreaming(ultra, fault)

\* C21: a stream that start_audio_streaming opens has 1 channel and signed
\* 16-bit samples, buffer 128 at 16000 Hz when ULTRA was asked and buffer 256
\* at 22050 Hz otherwise, and no stream has any other (buffer, rate) pair.
C21_StreamPresets ==
  [][/\ \A ultra \in BOOLEAN :
          Opens(ultra) =>
            /\ audio_stream'.channels = 1
            /\ audio_stream'.format = "paInt16"
            /\ audio_stream'.frames_per_buffer = (IF ultra THEN 128 ELSE 256)
            /\ audio_stream'.rate = (IF ultra THEN 16000 ELSE 22050)
     /\ audio_stream' # NoStream =>
          <<audio_stream'.frames_per_buffer, audio_stream'.rate>>
            \in {<<128, 16000>>, <<256, 22050>>}]_vars

\* streaming runs on a stream opened with the ULTRA preset
C21_Witness ==
  /\ is_streaming
  /\ audio_stream.frames_per_buffer = 128
  /\ audio_stream.rate = 16000
  /\ audio_stream.channels = 1

\* C22: at most one listener thread is alive in any reachable state.
C22_OneListener == BagCardinality(listeners) <= 1

\* C23: a fade whose ramp was cut short part-way because is_playing_intro
\* had become false writes nothing afterwards: the music, the volume and
\* is_playing_intro stay as they were.
C23_RampAbortWritesNothing ==
  [][\A r \in Live :
       (FadeEndOf(r) /\ 0 < r.i /\ r.i < fade_steps) =>
         UNCHANGED <<music, volume, is_playing_intro>>]_vars

\* C24: while play_sound waits for its clip, a step that is not the clip
\* reaching its end (nor the process being interrupted) leaves the clip
\* playing at volume 0.4.
C24_ClipNotInterrupted ==
  [][(pc = "clip_wait" /\ music = "clip" /\ volume = ClipVolume
        /\ pc' # "exited" /\ ~MusicEnds) =>
       (music' = "clip" /\ volume' = ClipVolume)]_vars

\* C25: once the main loop of run has ended, no listener thread is alive.
C25_NoListenerAtShutdown == pc = "exited" => listeners = EmptyBag

\* a start request that creates a PyAudio instance
StartAccepted ==
  /\ ~is_streaming
  /\ \E ultra \in BOOLEAN, fault \in {"none", "open", "start"} :
       StartAudioStreaming(ultra, fault)

\* C26: a start request opens a device only when no handle of an earlier
\* start is held, so never two instances or two streams are open at once;
\* and a start request made while is_streaming is true changes nothing.
C26_SerializedStartStop ==
  [][/\ StartAccepted => (instances = 0 /\ streams = 0)
     /\ instances' <= 1
     /\ streams' <= 1
     /\ (is_streaming /\ StartRequest) =>
          UNCHANGED <<streamVars, mixerVars, is_playing_intro,
                      fade_out_requested>>]_vars

\* a service's text that is too short to count: 5 characters or fewer once
\* trimmed
TooShort(o) == o.kind = "text" /\ Len(Strip(o.text)) <= 5

ProviderDone == prov_out # NotCalled

\* C28: a provider function returns None only after every one of its
\* backends was asked, in order, and none gave valid text; and after a
\* backend that failed in any way the next backend is asked.
C28_AllBackendsTried ==
  ProviderDone =>
    /\ prov_out.value = "None" =>
         attempted = [j \in 1..Len(backends) |-> j]
    /\ \A n \in 1..Len(attempted) :
         (backends[attempted[n]] # "text" /\ attempted[n] < Len(backends)) =>
           (n < Len(attempted) /\ attempted[n + 1] = attempted[n] + 1)

\* the foreground flow is inside play_intro_song, in its wait loop or just
\* past it, and the fade-out flag is set
FlagSeen == pc \in {"intro_wait", "intro_after"} /\ fade_out_requested

\* C29: with fade_out_requested set while the foreground is in the wait loop
\* of play_intro_song, the foreground leaves the loop at its next poll, and
\* on its way out it reports nothing and leaves is_playing_intro alone.
C29_FlagObserved ==
  /\ [][(FlagSeen /\ pc' \notin {pc, "exited"}) =>
          /\ natural' = natural
          /\ report' = report
          /\ is_playing_intro' = is_playing_intro]_vars
  /\ (pc = "intro_wait" /\ fade_out_requested) ~> (pc # "intro_wait")

\* play_intro_song has returned on a fade-out request: the fade is still
\* running and nothing was reported as finished
C29_Witness ==
  /\ pc = "listen"
  /\ fade_out_requested
  /\ is_playing_intro
  /\ ~natural
  /\ report = "Say 'fade out' to gradually stop the music."
  /\ FadeTriggered

\* every fade has run to its end: the music is stopped, the intro is over
\* and the volume is back at 0.8
FadeDone ==
  /\ ~FadeTriggered
  /\ music = "none"
  /\ ~is_playing_intro
  /\ volume = DefaultVolume

\* C30: while the process runs and its listener threads are scheduled, a
\* fade-out that was triggered leads to the music stopped, is_playing_intro
\* false, the volume 0.8 and the fading thread gone.
C30_FadeCompletes == FadeTriggered ~> (FadeDone \/ pc = "exited")

\* a fade has run its whole ramp and ended with the main loop still running
C30_Witness ==
  /\ faded
  /\ FadeDone
  /\ pc = "listen"
  /\ listeners = EmptyBag
  /\ fade_out_requested

\* C31: from any state of the session the teardown of the exit command and
\* the teardown of the KeyboardInterrupt handler give the same result: a
\* step is the one exactly when it is the other (same is_playing_intro,
\* is_streaming, stream handle and volume afterwards), and the two make the
\* same stop calls in the same order.
C31_SameTeardown ==
  [][\A fault \in StopFaults :
       /\ ExitTeardown(fault) <=> InterruptTeardown(fault)
       /\ ExitStops = InterruptStops]_vars

\* the exit command was given with the intro playing: the intro's flag was
\* cleared by the teardown (not by its natural end, a fade or a failed
\* start), the mixer is stopped at volume 0.8 and no stream is held
C31_Witness ==
  /\ pc = "exited"
  /\ report = "Goodbye!"
  /\ nstarted > 0
  /\ ~natural
  /\ ~faded
  /\ nfaults = 0
  /\ ~is_playing_intro
  /\ music = "none"
  /\ volume = DefaultVolume
  /\ streams = 0
  /\ instances = 0
  /\ ~is_streaming
  /\ audio_stream = NoStream
  /\ BagCardinality(listeners) > 0

\* the foreground is in no playback function, the mixer is silent, the intro
\* flag is off and no listener thread is fading
NothingPlaying ==
  /\ pc \in {"listen", "exited"}
  /\ music = "none"
  /\ ~is_playing_intro
  /\ ~FadeTriggered

\* C32: in every reachable state with no clip playing, no intro playing and
\* no fade-out in progress the mixer volume is 0.8, whichever way play_sound
\* and play_intro_song have returned.
C32_DefaultVolumeWhenIdle == NothingPlaying => volume = DefaultVolume

====
